---- MODULE Spec2Model ----
(***************************************************************************)
(* The two GPyOpt tutorial notebooks as state machines:                    *)
(*   - the weather-data parsing loop (forecast_dict),                      *)
(*   - the construction of the station arrays and the bounding-box filter, *)
(*   - the objective adapter max_Temp and the bandit optimization run,     *)
(*   - the custom acquisition jitter_integrated_EI.                        *)
(* Strings of the data file are sequences of one-character strings, so     *)
(* that slicing ([:-1]) and float() are computed, not assumed.             *)
(***************************************************************************)
EXTENDS Integers, Sequences, FiniteSets, TLC

VARIABLES
    pc,                        \* position in the notebook / in a method
    contents, line, forecast_dict,
    keys, temperature, lat, lon,
    sel, stations_coordinates_all, stations_maxT_all,
    stations_coordinates, stations_maxT,
    domain, X, Y, max_iter, num_acquisitions,
    par_a, par_b, num_samples, samples, jitter, model,
    x, k, acqu_x, acqu_x_grad, result, returned

dataVars == <<keys, temperature, lat, lon, sel, stations_coordinates_all,
              stations_maxT_all, stations_coordinates, stations_maxT>>
parseVars == <<contents, line, forecast_dict>>
banditVars == <<domain, X, Y, max_iter, num_acquisitions>>
acqVars == <<par_a, par_b, num_samples, samples, jitter, model,
             x, k, acqu_x, acqu_x_grad, result, returned>>
vars == <<pc, parseVars, dataVars, banditVars, acqVars>>

-----------------------------------------------------------------------------
(* Bounds of the model.                                                    *)
MaxLines == 2          \* data lines of the file after the first line
MaxStations == 2       \* stations of a processed dataset
MaxIterArg == 2        \* largest max_iter handed to run_optimization
MaxSamples == 2        \* largest num_samples of a jitter_integrated_EI
MaxRows == 1           \* rows of the x handed to an acquisition call, minus one

-----------------------------------------------------------------------------
(* Generic helpers.                                                        *)
Range(s) == {s[i] : i \in 1..Len(s)}

SeqsUpTo(S, n) == UNION {[1..m -> S] : m \in 0..n}

Perms(S) == {p \in [1..Cardinality(S) -> S] : Range(p) = S}

Filter(rows, mask) ==
    LET F[i \in 0..Len(rows)] ==
            IF i = 0 THEN <<>>
            ELSE IF mask[i] THEN Append(F[i-1], rows[i]) ELSE F[i-1]
    IN F[Len(rows)]

-----------------------------------------------------------------------------
(* Python's float() on the strings the data file can hold: surrounding     *)
(* whitespace is stripped, then an optional sign and one or more digits.   *)
(* Anything else raises ValueError.                                        *)
Digits == {"0", "1", "2", "3", "4", "5", "6", "7", "8", "9"}
Whitespace == {" ", "\n"}

DigitVal(c) ==
    CASE c = "0" -> 0 [] c = "1" -> 1 [] c = "2" -> 2 [] c = "3" -> 3
      [] c = "4" -> 4 [] c = "5" -> 5 [] c = "6" -> 6 [] c = "7" -> 7
      [] c = "8" -> 8 [] c = "9" -> 9

strip(s) ==
    LET idx == {i \in 1..Len(s) : s[i] \notin Whitespace}
    IN IF idx = {} THEN <<>>
       ELSE LET lo == CHOOSE i \in idx : \A j \in idx : i <= j
                hi == CHOOSE i \in idx : \A j \in idx : i >= j
            IN SubSeq(s, lo, hi)

DigitsVal(s) ==
    LET V[i \in 0..Len(s)] == IF i = 0 THEN 0 ELSE 10 * V[i-1] + DigitVal(s[i])
    IN V[Len(s)]

\* float(s) raises ValueError
FloatRaises(s) ==
    LET t == strip(s)
        d == IF Len(t) > 0 /\ t[1] = "-" THEN Tail(t) ELSE t
    IN Len(d) = 0 \/ \E i \in 1..Len(d) : d[i] \notin Digits

\* the value of float(s) when it does not raise
float(s) ==
    LET t == strip(s)
    IN IF Len(t) > 0 /\ t[1] = "-" THEN 0 - DigitsVal(Tail(t)) ELSE DigitsVal(t)

\* s[:-1]: everything but the last character (the empty string stays empty)
ButLast(s) == IF Len(s) = 0 THEN <<>> ELSE SubSeq(s, 1, Len(s) - 1)

-----------------------------------------------------------------------------
(* The data file.  A line is the list line.split(' ') yields: its fields,  *)
(* the last one carrying the line's newline when it has one.               *)
day_out == <<"0">>

HeaderLine == << <<"l","a","t">>, <<"l","o","n">>, <<"d","a","y">>,
                 <<"M","a","x","T">>, <<"M","i","n","T","\n">> >>
BlankLine == << <<"\n">> >>

ParseLatFields == { <<"3","0">> }
ParseLonFields == { <<"-","1","0","0">>, <<"-","9","0">> }
DayFields == { <<"0">>, <<"1">> }
MaxTFields == { <<"2">>, <<"4">>, <<"x">> }
MinTFields == { <<"1","\n">>, <<"3","\n">>, <<"1","2">> }

DataLines ==
    { <<a, b, d, mx, mn>> : a \in ParseLatFields, b \in ParseLonFields,
                            d \in DayFields, mx \in MaxTFields, mn \in MinTFields }

FirstLines == { HeaderLine, << <<"3","0">>, <<"-","1","0","0">>, <<"0">>, <<"4">>, <<"3","\n">> >> }

\* a line of f.readlines() ends with its newline, except possibly the last
EndsWithNewline(line_split) ==
    LET last == line_split[Len(line_split)] IN last[Len(last)] = "\n"

Files ==
    { <<>> } \cup
    { file \in { <<h>> \o body : h \in FirstLines,
                                 body \in SeqsUpTo(DataLines \cup {BlankLine}, MaxLines) } :
        \A i \in 1..(Len(file) - 1) : EndsWithNewline(file[i]) }

-----------------------------------------------------------------------------
(* Values of the variables a specification does not use.                   *)
ParseIdle == contents = <<>> /\ line = 1 /\ forecast_dict = <<>>

DataIdle ==
    /\ keys = <<>> /\ temperature = <<>> /\ lat = <<>> /\ lon = <<>>
    /\ sel = <<>> /\ stations_coordinates_all = <<>> /\ stations_maxT_all = <<>>
    /\ stations_coordinates = <<>> /\ stations_maxT = <<>>

BanditIdle ==
    domain = <<>> /\ X = <<>> /\ Y = <<>> /\ max_iter = 0 /\ num_acquisitions = 0

AcqIdle ==
    /\ par_a = 1 /\ par_b = 1 /\ num_samples = 0 /\ samples = <<>> /\ jitter = 0
    /\ model = 0 /\ x = <<>> /\ k = 0 /\ acqu_x = <<>> /\ acqu_x_grad = <<>>
    /\ result = <<>> /\ returned = <<>>

-----------------------------------------------------------------------------
(* Dictionaries are functions; d[key] = value is DictSet.                  *)
DictSet(d, key, value) ==
    [kk \in DOMAIN d \cup {key} |-> IF kk = key THEN value ELSE d[kk]]

EmptyDict == <<>>

\* line_split[i] with Python's 0-based index
Field(line_split, i) == line_split[i + 1]

\* the dictionary display {'MaxT': float(line_split[3]), 'MinT': float(line_split[4][:-1])};
\* it raises IndexError on a short line and ValueError on a field that is no number
EntryRaises(line_split) ==
    \/ Len(line_split) < 5
    \/ FloatRaises(Field(line_split, 3))
    \/ FloatRaises(ButLast(Field(line_split, 4)))

Entry(line_split) ==
    [MaxT |-> float(Field(line_split, 3)),
     MinT |-> float(ButLast(Field(line_split, 4)))]

StationKey(line_split) == <<Field(line_split, 0), Field(line_split, 1)>>

\* The try statement succeeds when the right-hand side evaluates and the
\* station key is already in forecast_dict.
TryRaises(d, line_split) ==
    EntryRaises(line_split) \/ StationKey(line_split) \notin DOMAIN d

\* The except branch: forecast_dict[key] = {} and then the assignment again.
\* Its result is the dictionary it leaves and whether it raised.
ExceptBranch(d, line_split) ==
    IF Len(line_split) < 2
    THEN [dict |-> d, raised |-> TRUE]
    ELSE LET key == StationKey(line_split)
             d1 == DictSet(d, key, EmptyDict)
         IN IF EntryRaises(line_split)
            THEN [dict |-> d1, raised |-> TRUE]
            ELSE [dict |-> DictSet(d1, key,
                               DictSet(d1[key], Field(line_split, 2), Entry(line_split))),
                  raised |-> FALSE]

\* One iteration of "for line in range(1, len(contents))".
LoopBody(d, line_split) ==
    IF ~TryRaises(d, line_split)
    THEN LET key == StationKey(line_split)
         IN [dict |-> DictSet(d, key,
                          DictSet(d[key], Field(line_split, 2), Entry(line_split))),
             raised |-> FALSE]
    ELSE ExceptBranch(d, line_split)

ParseLine ==
    /\ pc = "parse"
    /\ line < Len(contents)
    /\ LET r == LoopBody(forecast_dict, contents[line + 1])
       IN /\ forecast_dict' = r.dict
          /\ IF r.raised
             THEN pc' = "error" /\ line' = line
             ELSE pc' = pc /\ line' = line + 1
    /\ UNCHANGED <<contents, dataVars, banditVars, acqVars>>

ParseDone ==
    /\ pc = "parse"
    /\ line >= Len(contents)
    /\ pc' = "parsed"
    /\ UNCHANGED <<parseVars, dataVars, banditVars, acqVars>>

InitParse ==
    /\ pc = "parse"
    /\ contents \in Files
    /\ line = 1
    /\ forecast_dict = EmptyDict
    /\ DataIdle /\ BanditIdle /\ AcqIdle

NextParse == ParseLine \/ ParseDone

SpecParse == InitParse /\ [][NextParse]_vars

-----------------------------------------------------------------------------
(* Building the station arrays from forecast_dict and filtering them to    *)
(* the continental bounding box.                                           *)
temp == "MaxT"

LatFields == { <<"2","4">>, <<"3","0">>, <<"5","1">> }
LonFields == { <<"-","1","3","0">>, <<"-","1","0","0">>, <<"-","6","5">> }
Temps == {2, 4}

\* the forecasts one station can hold after a parse of well-formed lines
DayMaps ==
    { [d \in {day_out} |-> [MaxT |-> t, MinT |-> 1]] : t \in Temps } \cup
    { [d \in { <<"1">> } |-> [MaxT |-> 2, MinT |-> 1]] } \cup
    { [d \in DayFields |-> [MaxT |-> IF d = day_out THEN t ELSE 2, MinT |-> 1]] : t \in Temps }

ForecastDicts ==
    UNION { [ks -> DayMaps] :
            ks \in {S \in SUBSET (LatFields \X LonFields) : Cardinality(S) <= MaxStations} }

\* keys = forecast_dict.keys(): the iteration order of a dictionary is not
\* fixed by the language version the notebook names, so any order
MakeKeys ==
    /\ pc = "parsed"
    /\ \E order \in Perms(DOMAIN forecast_dict) : keys' = order
    /\ temperature' = <<>> /\ lat' = <<>> /\ lon' = <<>>
    /\ pc' = "keys"
    /\ UNCHANGED <<parseVars, sel, stations_coordinates_all, stations_maxT_all,
                   stations_coordinates, stations_maxT, banditVars, acqVars>>

\* One iteration of "for key in keys"; forecast_dict[key][day_out] raises
\* KeyError for a station without that day, float(key[i]) ValueError.
AppendKey ==
    /\ pc = "keys"
    /\ Len(temperature) < Len(keys)
    /\ LET key == keys[Len(temperature) + 1]
       IN IF day_out \notin DOMAIN forecast_dict[key]
          THEN pc' = "error" /\ UNCHANGED <<temperature, lat, lon>>
          ELSE /\ temperature' = Append(temperature, forecast_dict[key][day_out][temp])
               /\ IF FloatRaises(key[1])
                  THEN pc' = "error" /\ UNCHANGED <<lat, lon>>
                  ELSE /\ lat' = Append(lat, float(key[1]))
                       /\ IF FloatRaises(key[2])
                          THEN pc' = "error" /\ UNCHANGED lon
                          ELSE pc' = pc /\ lon' = Append(lon, float(key[2]))
    /\ UNCHANGED <<parseVars, keys, sel, stations_coordinates_all, stations_maxT_all,
                   stations_coordinates, stations_maxT, banditVars, acqVars>>

\* the filter with the southern boundary included
MutSel_Inclusive(lats, lons) ==
    [i \in 1..Len(lats) |-> (lats[i] >= 24 /\ lats[i] < 51) /\ (lons[i] > -130 /\ lons[i] < -65)]

\* sel = np.logical_and(np.logical_and(lat>24,lat<51),np.logical_and(lon> -130, lon <-65))
Sel(lats, lons) ==
    [i \in 1..Len(lats) |-> (lats[i] > 24 /\ lats[i] < 51) /\ (lons[i] > -130 /\ lons[i] < -65)]

\* np.array([lon,lat]).T
CoordinatesAll(lons, lats) == [i \in 1..Len(lons) |-> <<lons[i], lats[i]>>]

\* np.array([temperature]).T
MaxTAll(temps) == [i \in 1..Len(temps) |-> <<temps[i]>>]

\* stations_coordinates_all[sel,:]
SelectCoordinates(all, mask) == Filter(all, mask)

\* the temperatures left unfiltered
MutSelectMaxT_Unfiltered(all, mask) == all

\* stations_maxT_all[sel,:]
SelectMaxT(all, mask) == Filter(all, mask)

MakeArrays ==
    /\ pc = "keys"
    /\ Len(temperature) = Len(keys)
    /\ sel' = Sel(lat, lon)
    /\ stations_coordinates_all' = CoordinatesAll(lon, lat)
    /\ stations_maxT_all' = MaxTAll(temperature)
    /\ stations_coordinates' = SelectCoordinates(CoordinatesAll(lon, lat), Sel(lat, lon))
    /\ stations_maxT' = SelectMaxT(MaxTAll(temperature), Sel(lat, lon))
    /\ pc' = "processed"
    /\ UNCHANGED <<parseVars, keys, temperature, lat, lon, banditVars, acqVars>>

InitData ==
    /\ pc = "parsed"
    /\ contents = <<>> /\ line = 1
    /\ forecast_dict \in ForecastDicts
    /\ DataIdle /\ BanditIdle /\ AcqIdle

NextData == MakeKeys \/ AppendKey \/ MakeArrays

SpecData == InitData /\ [][NextData]_vars

\* The state in which the processing cell leaves the arrays, in closed form:
\* what the loop over keys and the array construction compute from
\* forecast_dict and the order of its keys.
Processed ==
    /\ pc = "processed"
    /\ keys \in Perms(DOMAIN forecast_dict)
    /\ temperature = [i \in 1..Len(keys) |-> forecast_dict[keys[i]][day_out][temp]]
    /\ lat = [i \in 1..Len(keys) |-> float(keys[i][1])]
    /\ lon = [i \in 1..Len(keys) |-> float(keys[i][2])]
    /\ sel = Sel(lat, lon)
    /\ stations_coordinates_all = CoordinatesAll(lon, lat)
    /\ stations_maxT_all = MaxTAll(temperature)
    /\ stations_coordinates = SelectCoordinates(stations_coordinates_all, sel)
    /\ stations_maxT = SelectMaxT(stations_maxT_all, sel)

-----------------------------------------------------------------------------
(* The objective adapter max_Temp and the bandit optimization.             *)

\* (self.stations_coordinates == x).sum(axis=1): per row, the number of
\* columns equal to the column of x
Matches(coordinates, xrow) ==
    [i \in 1..Len(coordinates) |->
        (IF coordinates[i][1] = xrow[1] THEN 1 ELSE 0) +
        (IF coordinates[i][2] = xrow[2] THEN 1 ELSE 0)]

\* np.dot(0.5*counts, maxT): temperatures of the model are even, so that
\* half a temperature is an integer
Dot(counts, maxT) ==
    LET D[i \in 0..Len(counts)] ==
            IF i = 0 THEN 0 ELSE D[i-1] + (counts[i] * maxT[i][1]) \div 2
    IN D[Len(counts)]

\* max_Temp.f(x) for one row x; the value is the row of a 1x1 array
f(self, xrow) ==
    << Dot(Matches(self.stations_coordinates, xrow), self.stations_maxT) >>

\* func = max_Temp(stations_coordinates, stations_maxT)
func == [stations_coordinates |-> stations_coordinates, stations_maxT |-> stations_maxT]

\* the bandit built on the unfiltered stations
MutDomain_AllStations ==
    [name |-> "stations", type |-> "bandit", domain |-> stations_coordinates_all]

\* domain = [{'name': 'stations', 'type': 'bandit', 'domain': stations_coordinates}]
Domain == [name |-> "stations", type |-> "bandit", domain |-> stations_coordinates]

initial_design_numdata == 5

\* The random initial design of a bandit domain: n arms of the bandit, drawn
\* with repetition.
InitialDesigns(arms, n) == [1..n -> Range(arms)]

\* BayesianOptimization(f=func.f, domain=domain, initial_design_numdata=...):
\* the initial design is drawn and the objective is evaluated on each of
\* its rows.
CreateBopt ==
    /\ pc = "processed"
    /\ domain' = Domain
    /\ IF Len(Domain.domain) = 0
       THEN pc' = "error" /\ UNCHANGED <<X, Y>>
       ELSE /\ \E design \in InitialDesigns(Domain.domain, initial_design_numdata) :
                 /\ X' = design
                 /\ Y' = [i \in 1..initial_design_numdata |-> f(func, design[i])]
            /\ pc' = "bopt"
    /\ UNCHANGED <<parseVars, dataVars, max_iter, num_acquisitions, acqVars>>

\* myBopt.run_optimization(max_iter)
RunOptimization ==
    /\ pc = "bopt"
    /\ \E m \in 0..MaxIterArg : max_iter' = m
    /\ num_acquisitions' = 0
    /\ pc' = "running"
    /\ UNCHANGED <<parseVars, dataVars, domain, X, Y, acqVars>>

\* the budget test off by one
MutLoopGuard_OffByOne == num_acquisitions <= max_iter

\* the loop goes on while the iteration budget is not used up
LoopGuard == num_acquisitions < max_iter

\* One iteration of the optimization loop: the acquisition is optimized over
\* the arms of the bandit, the chosen arm is evaluated and recorded.
Iterate ==
    /\ pc = "running"
    /\ LoopGuard
    /\ \E arm \in Range(domain.domain) :
          /\ X' = Append(X, arm)
          /\ Y' = Append(Y, f(func, arm))
    /\ num_acquisitions' = num_acquisitions + 1
    /\ UNCHANGED <<pc, parseVars, dataVars, domain, max_iter, acqVars>>

\* The loop ends when the budget is used up, or earlier when the same
\* location is selected twice.
StopOptimization ==
    /\ pc = "running"
    /\ pc' = "done"
    /\ UNCHANGED <<parseVars, dataVars, banditVars, acqVars>>

BanditKeys == { << <<"3","0">>, <<"-","1","0","0">> >>,
                << <<"4","0">>, <<"-","1","0","0">> >>,
                << <<"4","0">>, <<"-","9","0">> >>,
                << <<"2","4">>, <<"-","1","0","0">> >> }

BanditDicts ==
    UNION { [ks -> {dm \in DayMaps : DOMAIN dm = {day_out}}] :
            ks \in {S \in SUBSET BanditKeys : Cardinality(S) <= MaxStations} }

InitBandit ==
    /\ contents = <<>> /\ line = 1
    /\ forecast_dict \in BanditDicts
    /\ Processed
    /\ BanditIdle /\ AcqIdle

NextBandit == CreateBopt \/ RunOptimization \/ Iterate \/ StopOptimization

SpecBandit == InitBandit /\ [][NextBandit]_vars

\* The notebook runs its cells and the library its loop without pausing.
SpecBanditFair == SpecBandit /\ WF_vars(NextBandit)

-----------------------------------------------------------------------------
(* The custom acquisition jitter_integrated_EI.                            *)
(* Real numbers are integers here; a quotient a/n is the pair <<a, n>>,    *)
(* compared as a fraction.                                                 *)
Div(a, n) == <<a, n>>
RatEq(p, q) == p[1] * q[2] = q[1] * p[2]

\* the values numpy.random.beta can draw, and the jitter AcquisitionEI is built with
JitterSamples == {1, 2}
DefaultJitter == 0
Models == {0, 1}
Points == { <<0, 1>>, <<1, 0>> }
Xs == UNION { [1..n -> Points] : n \in 1..(MaxRows + 1) }

\* AcquisitionEI.acquisition_function on one row of x, for the state m of
\* the surrogate model and the jitter jit: an arbitrary function that is
\* not linear in the jitter
EIValue(m, xrow, jit) == 0 - (1 + xrow[1] + 2 * xrow[2] + 3 * m) * (4 - jit) * (4 - jit)

\* the gradient AcquisitionEI.acquisition_function_withGradients returns with that value
EIGrad(m, xrow, jit) == << (1 + xrow[1] + m) * jit * jit, (2 + xrow[2]) * (jit + m) >>

EI_acquisition_function(m, xx, jit) == [i \in 1..Len(xx) |-> EIValue(m, xx[i], jit)]

EI_acquisition_function_withGradients(m, xx, jit) ==
    << [i \in 1..Len(xx) |-> EIValue(m, xx[i], jit)],
       [i \in 1..Len(xx) |-> EIGrad(m, xx[i], jit)] >>

\* np.zeros((x.shape[0],1)) and np.zeros(x.shape)
Zeros1(xx) == [i \in 1..Len(xx) |-> 0]
Zeros2(xx) == [i \in 1..Len(xx) |-> <<0, 0>>]

AddRows(a, b) == [i \in 1..Len(a) |-> a[i] + b[i]]
AddGrads(a, b) == [i \in 1..Len(a) |-> <<a[i][1] + b[i][1], a[i][2] + b[i][2]>>]
DivRows(a, n) == [i \in 1..Len(a) |-> Div(a[i], n)]
DivGrads(a, n) == [i \in 1..Len(a) |-> <<Div(a[i][1], n), Div(a[i][2], n)>>]

acqFrame == <<parseVars, dataVars, banditVars>>

\* acquisition_function drawing fresh samples at every call
MutCallAcq_Resample ==
    /\ pc = "idle"
    /\ \E xx \in Xs : x' = xx /\ acqu_x' = Zeros1(xx)
    /\ samples' \in [1..num_samples -> JitterSamples]
    /\ k' = 0
    /\ pc' = "acq"
    /\ UNCHANGED <<acqFrame, par_a, par_b, num_samples, jitter, model,
                   acqu_x_grad, result, returned>>

\* acquisition_function(x): acqu_x = np.zeros((x.shape[0],1))
CallAcq ==
    /\ pc = "idle"
    /\ \E xx \in Xs : x' = xx /\ acqu_x' = Zeros1(xx)
    /\ k' = 0
    /\ pc' = "acq"
    /\ UNCHANGED <<acqFrame, par_a, par_b, num_samples, samples, jitter, model,
                   acqu_x_grad, result, returned>>

\* the loop body evaluating the inner acquisition before it sets the jitter
MutAcqLoop_StaleJitter ==
    /\ pc = "acq"
    /\ k < num_samples
    /\ acqu_x' = AddRows(acqu_x, EI_acquisition_function(model, x, jitter))
    /\ jitter' = samples[k + 1]
    /\ k' = k + 1
    /\ UNCHANGED <<pc, acqFrame, par_a, par_b, num_samples, samples, model, x,
                   acqu_x_grad, result, returned>>

\* for k in range(self.num_samples): self.EI.jitter = self.samples[k];
\*     acqu_x += self.EI.acquisition_function(x)
AcqLoop ==
    /\ pc = "acq"
    /\ k < num_samples
    /\ jitter' = samples[k + 1]
    /\ acqu_x' = AddRows(acqu_x, EI_acquisition_function(model, x, jitter'))
    /\ k' = k + 1
    /\ UNCHANGED <<pc, acqFrame, par_a, par_b, num_samples, samples, model, x,
                   acqu_x_grad, result, returned>>

\* return acqu_x/self.num_samples
AcqReturn ==
    /\ pc = "acq"
    /\ k >= num_samples
    /\ result' = DivRows(acqu_x, num_samples)
    /\ returned' = [kind |-> "acq", model |-> model, x |-> x, value |-> result']
    /\ pc' = "idle"
    /\ UNCHANGED <<acqFrame, par_a, par_b, num_samples, samples, jitter, model,
                   x, k, acqu_x, acqu_x_grad>>

\* acquisition_function_withGradients(x): both accumulators start at zero
CallAcqG ==
    /\ pc = "idle"
    /\ \E xx \in Xs : x' = xx /\ acqu_x' = Zeros1(xx) /\ acqu_x_grad' = Zeros2(xx)
    /\ k' = 0
    /\ pc' = "acqG"
    /\ UNCHANGED <<acqFrame, par_a, par_b, num_samples, samples, jitter, model,
                   result, returned>>

\* the loop body keeping only the gradient of the last sample
MutAcqGLoop_GradOverwrite ==
    /\ pc = "acqG"
    /\ k < num_samples
    /\ jitter' = samples[k + 1]
    /\ LET r == EI_acquisition_function_withGradients(model, x, jitter')
       IN /\ acqu_x' = AddRows(acqu_x, r[1])
          /\ acqu_x_grad' = r[2]
    /\ k' = k + 1
    /\ UNCHANGED <<pc, acqFrame, par_a, par_b, num_samples, samples, model, x,
                   result, returned>>

\* for k in range(self.num_samples): self.EI.jitter = self.samples[k];
\*     acqu_x_sample, acqu_x_grad_sample = self.EI.acquisition_function_withGradients(x);
\*     acqu_x += acqu_x_sample; acqu_x_grad += acqu_x_grad_sample
AcqGLoop ==
    /\ pc = "acqG"
    /\ k < num_samples
    /\ jitter' = samples[k + 1]
    /\ LET r == EI_acquisition_function_withGradients(model, x, jitter')
       IN /\ acqu_x' = AddRows(acqu_x, r[1])
          /\ acqu_x_grad' = AddGrads(acqu_x_grad, r[2])
    /\ k' = k + 1
    /\ UNCHANGED <<pc, acqFrame, par_a, par_b, num_samples, samples, model, x,
                   result, returned>>

\* return acqu_x/self.num_samples, acqu_x_grad/self.num_samples
AcqGReturn ==
    /\ pc = "acqG"
    /\ k >= num_samples
    /\ result' = <<DivRows(acqu_x, num_samples), DivGrads(acqu_x_grad, num_samples)>>
    /\ returned' = [kind |-> "acqG", model |-> model, x |-> x, value |-> result']
    /\ pc' = "idle"
    /\ UNCHANGED <<acqFrame, par_a, par_b, num_samples, samples, jitter, model,
                   x, k, acqu_x, acqu_x_grad>>

\* Between two calls the optimization loop may refit the surrogate model.
UpdateModel ==
    /\ pc = "idle"
    /\ \E m \in Models \ {model} : model' = m
    /\ UNCHANGED <<pc, acqFrame, par_a, par_b, num_samples, samples, jitter,
                   x, k, acqu_x, acqu_x_grad, result, returned>>

NoCall == [kind |-> "none", model |-> 0, x |-> <<>>, value |-> <<>>]

\* jitter_integrated_EI(model, space, optimizer, par_a=.., par_b=.., num_samples=..):
\* the samples are drawn by beta(par_a, par_b, num_samples)
InitAcq ==
    /\ pc = "idle"
    /\ ParseIdle /\ DataIdle /\ BanditIdle
    /\ par_a = 1
    /\ par_b \in {1, 10}
    /\ num_samples \in 1..MaxSamples
    /\ samples \in [1..num_samples -> JitterSamples]
    /\ jitter = DefaultJitter
    /\ model \in Models
    /\ x = <<>> /\ k = 0 /\ acqu_x = <<>> /\ acqu_x_grad = <<>>
    /\ result = <<>> /\ returned = NoCall

NextAcq ==
    \/ CallAcq \/ AcqLoop \/ AcqReturn
    \/ CallAcqG \/ AcqGLoop \/ AcqGReturn
    \/ UpdateModel

SpecAcq == InitAcq /\ [][NextAcq]_vars

-----------------------------------------------------------------------------
(* Properties.                                                             *)

\* The arrays the processing cell leaves are the ones the bandit
\* specification starts from.
DataLeavesProcessed == pc = "processed" => Processed

InBox(la, lo) == la > 24 /\ la < 51 /\ lo > -130 /\ lo < -65

KeyLat(key) == float(key[1])
KeyLon(key) == float(key[2])

\* C1: for every station of the set given to max_Temp, f called with the
\* station's (longitude, latitude) returns exactly that station's
\* temperature, so every objective value recorded during the optimization
\* is the temperature of the queried station.
C1_ObjectiveIsStationTemperature ==
    \A i \in 1..Len(Y) :
        \A s \in 1..Len(stations_coordinates) :
            stations_coordinates[s] = X[i] => Y[i] = stations_maxT[s]

\* the sum of the inner Expected Improvement values over the first n samples
SumEI(m, xrow, smp, n) ==
    LET S[j \in 0..n] == IF j = 0 THEN 0 ELSE S[j-1] + EIValue(m, xrow, smp[j])
    IN S[n]

\* the sum of component c of the inner gradient over the first n samples
SumGrad(m, xrow, smp, n, c) ==
    LET S[j \in 0..n] == IF j = 0 THEN 0 ELSE S[j-1] + EIGrad(m, xrow, smp[j])[c]
    IN S[n]

\* C2: for num_samples >= 1, acquisition_function(x) returns the arithmetic
\* mean over all stored samples of the inner Expected Improvement at x with
\* the jitter set to the sample: while the loop runs, the accumulator holds
\* the sum over the first k samples (each used once), and the value
\* returned is the sum over all of them divided by num_samples.
C2_AcquisitionIsMean ==
    /\ pc = "acq" =>
          /\ k <= num_samples
          /\ \A i \in 1..Len(x) : acqu_x[i] = SumEI(model, x[i], samples, k)
    /\ (pc = "idle" /\ returned.kind = "acq") =>
          /\ Len(returned.value) = Len(returned.x)
          /\ \A i \in 1..Len(returned.x) :
                RatEq(returned.value[i],
                      <<SumEI(returned.model, returned.x[i], samples, num_samples),
                        num_samples>>)

C2_Witness ==
    /\ pc = "idle" /\ returned.kind = "acq"
    /\ num_samples >= 2 /\ samples[1] # samples[2]
    /\ Len(returned.x) >= 2 /\ returned.x[1] # returned.x[2]

\* C3: for num_samples >= 1, acquisition_function_withGradients(x) returns
\* a pair whose first component is the value acquisition_function returns
\* for the same x and model (the mean of the inner values; and the very
\* value a preceding acquisition_function call returned for that x and
\* model), and whose second component is the mean of the inner gradients.
C3_WithGradientsIsMean ==
    /\ [] ((pc = "idle" /\ returned.kind = "acqG") =>
             /\ Len(returned.value[1]) = Len(returned.x)
             /\ Len(returned.value[2]) = Len(returned.x)
             /\ \A i \in 1..Len(returned.x) :
                   /\ RatEq(returned.value[1][i],
                            <<SumEI(returned.model, returned.x[i], samples, num_samples),
                              num_samples>>)
                   /\ \A c \in 1..2 :
                         RatEq(returned.value[2][i][c],
                               <<SumGrad(returned.model, returned.x[i], samples,
                                         num_samples, c), num_samples>>))
    /\ [][ (pc = "acqG" /\ pc' = "idle" /\ returned.kind = "acq"
            /\ returned.x = x /\ returned.model = model)
           => result'[1] = returned.value ]_vars

C3_Witness ==
    /\ pc = "acqG" /\ k = num_samples
    /\ returned.kind = "acq" /\ returned.x = x /\ returned.model = model
    /\ num_samples >= 2 /\ samples[1] # samples[2]

\* C4: after the dataset is processed, a parsed station is a row of
\* stations_coordinates if and only if its latitude is strictly between 24
\* and 51 and its longitude strictly between -130 and -65; no station of
\* the box is dropped and none is kept twice.
C4_BoundingBox ==
    pc = "processed" =>
        /\ \A key \in DOMAIN forecast_dict :
              (<<KeyLon(key), KeyLat(key)>> \in Range(stations_coordinates))
                 <=> (KeyLat(key) > 24 /\ KeyLat(key) < 51
                      /\ KeyLon(key) > -130 /\ KeyLon(key) < -65)
        /\ Len(stations_coordinates) =
              Cardinality({key \in DOMAIN forecast_dict : InBox(KeyLat(key), KeyLon(key))})

C4_Witness ==
    /\ pc = "processed"
    /\ Len(stations_coordinates_all) = 2 /\ Len(stations_coordinates) = 1
    /\ \E i \in 1..2 : stations_coordinates_all[i][2] = 24
                       /\ stations_coordinates_all[i][1] = -100

\* C5: run_optimization(max_iter) always terminates and performs at most
\* max_iter iterations of the loop, so when it returns at most
\* initial_design_numdata + max_iter locations have been evaluated.
C5_TerminatesWithinBudget ==
    /\ <>(pc \in {"done", "error"})
    /\ [](num_acquisitions <= max_iter)
    /\ [](pc = "done" => /\ Len(X) = initial_design_numdata + num_acquisitions
                         /\ Len(X) <= initial_design_numdata + max_iter)

C5_Witness == pc = "done" /\ max_iter = 2 /\ num_acquisitions = max_iter

\* C6: at every point of the bandit optimization (initial design and every
\* later iteration) each evaluated location of X is a row of
\* stations_coordinates.
C6_OnlyStationsQueried ==
    \A i \in 1..Len(X) : X[i] \in Range(stations_coordinates)

C6_Witness ==
    /\ pc = "running" /\ num_acquisitions >= 1
    /\ Len(stations_coordinates) < Len(stations_coordinates_all)

\* C7: the bandit optimization is initialised with 50 stations: when the
\* optimization loop starts, exactly 50 stations have been evaluated.
C7_FiftyInitialStations ==
    (pc = "running" /\ num_acquisitions = 0) => Len(X) = 50

\* C8: processing a line of the data file never removes or resets a
\* (station, day) entry stored by an earlier line, and on a parse error the
\* entries of the stations stored so far are unchanged.
C8_EntriesNeverReset ==
    [][ \A key \in DOMAIN forecast_dict :
            /\ key \in DOMAIN forecast_dict'
            /\ DOMAIN forecast_dict[key] \subseteq DOMAIN forecast_dict'[key]
            /\ pc' = "error" => forecast_dict'[key] = forecast_dict[key] ]_vars

\* C9: no call of acquisition_function or acquisition_function_withGradients
\* changes samples, num_samples, par_a or par_b; the number of samples is
\* num_samples; and a call with the x and the model of the call before it
\* returns the same result.
C9_SamplesFixed ==
    /\ [](Len(samples) = num_samples)
    /\ [][ /\ samples' = samples /\ num_samples' = num_samples
           /\ par_a' = par_a /\ par_b' = par_b ]_vars
    /\ [][ (/\ pc \in {"acq", "acqG"} /\ pc' = "idle"
            /\ returned.kind = pc /\ returned.x = x /\ returned.model = model)
           => result' = returned.value ]_vars

C9_Witness ==
    /\ pc = "acq" /\ k = num_samples
    /\ returned.kind = "acq" /\ returned.x = x /\ returned.model = model
    /\ num_samples >= 2 /\ samples[1] # samples[2]

\* C10: stations_coordinates and stations_maxT always have the same number
\* of rows, and row i of stations_maxT is the day-'0' MaxT of the station
\* whose (longitude, latitude) is row i of stations_coordinates.
C10_RowsPaired ==
    /\ Len(stations_coordinates) = Len(stations_maxT)
    /\ pc = "processed" =>
          \A i \in 1..Len(stations_coordinates) :
              \E key \in DOMAIN forecast_dict :
                  /\ stations_coordinates[i] = <<KeyLon(key), KeyLat(key)>>
                  /\ stations_maxT[i] = <<forecast_dict[key][day_out]["MaxT"]>>

C10_Witness ==
    /\ pc = "processed"
    /\ Len(stations_coordinates_all) = 2 /\ Len(stations_coordinates) = 1
    /\ ~sel[1] /\ sel[2]
    /\ stations_maxT_all[1] # stations_maxT_all[2]


\* C11: for every line of the data file, the MinT stored in forecast_dict
\* for the line's station and day is the numeric value of the line's fifth
\* field and the MaxT that of its fourth field, also for a last line that
\* does not end with a newline.
C11_StoredValuesAreFields ==
    [][ (pc = "parse" /\ line' = line + 1) =>
          LET line_split == contents[line + 1]
          IN forecast_dict'[StationKey(line_split)][Field(line_split, 2)] =
                [MaxT |-> float(Field(line_split, 3)),
                 MinT |-> float(Field(line_split, 4))] ]_vars


\* For a line that ends with its newline the stored values are the values
\* of the fourth and fifth fields.
NewlineLinesStoredExactly ==
    [][ (pc = "parse" /\ line' = line + 1 /\ EndsWithNewline(contents[line + 1])) =>
          LET line_split == contents[line + 1]
          IN forecast_dict'[StationKey(line_split)][Field(line_split, 2)] =
                [MaxT |-> float(Field(line_split, 3)),
                 MinT |-> float(Field(line_split, 4))] ]_vars


\* a line with five fields whose temperature fields are numbers
WellFormedLine(line_split) ==
    /\ Len(line_split) = 5
    /\ ~FloatRaises(Field(line_split, 3))
    /\ ~FloatRaises(Field(line_split, 4))

WellFormedFile == \A i \in 2..Len(contents) : WellFormedLine(contents[i])

Triple(line_split) == <<Field(line_split, 0), Field(line_split, 1), Field(line_split, 2)>>

\* the lines other than the first that carry the triple t
Carriers(t) ==
    {i \in 2..Len(contents) : Len(contents[i]) >= 3 /\ Triple(contents[i]) = t}

LastCarrier(t) == CHOOSE i \in Carriers(t) : \A j \in Carriers(t) : j <= i

HasEntry(t) ==
    /\ <<t[1], t[2]>> \in DOMAIN forecast_dict
    /\ t[3] \in DOMAIN forecast_dict[<<t[1], t[2]>>]

\* every triple a line of the file or an entry of forecast_dict carries
AllTriples ==
    {Triple(contents[i]) : i \in {j \in 1..Len(contents) : Len(contents[j]) >= 3}}
    \cup {<<key[1], key[2], d>> : key \in DOMAIN forecast_dict, d \in DayFields}

FieldValues(line_split) ==
    [MaxT |-> float(Field(line_split, 3)), MinT |-> float(Field(line_split, 4))]

\* C12: after parsing a file of well-formed lines, forecast_dict holds an
\* entry for a (latitude, longitude, day) triple exactly when some line
\* other than the first carries it; the first line is never parsed, and the
\* entry holds the values of the last line that carries the triple.
C12_EntriesAreLinesAfterFirst ==
    (pc = "parsed" /\ WellFormedFile) =>
        \A t \in AllTriples :
            /\ HasEntry(t) <=> Carriers(t) # {}
            /\ Carriers(t) # {} =>
                  forecast_dict[<<t[1], t[2]>>][t[3]] = FieldValues(contents[LastCarrier(t)])

\* The same with the values as the loop parses them (the fifth field
\* without its last character): the entries are those of the lines after
\* the first, the last line of a triple winning.
EntriesAreLinesAfterFirstAsParsed ==
    (pc = "parsed" /\ WellFormedFile) =>
        \A t \in AllTriples :
            /\ HasEntry(t) <=> Carriers(t) # {}
            /\ Carriers(t) # {} =>
                  forecast_dict[<<t[1], t[2]>>][t[3]] = Entry(contents[LastCarrier(t)])

\* a parsed file whose first line carries a triple no later line carries,
\* and in which two later lines carry the same triple with different values
LastLineWinsReached ==
    /\ pc = "parsed" /\ WellFormedFile /\ Len(contents) = 3
    /\ Len(contents[1]) = 5 /\ Carriers(Triple(contents[1])) = {}
    /\ Triple(contents[2]) = Triple(contents[3])
    /\ Entry(contents[2]) # Entry(contents[3])

====
